---- MODULE Spec2Model ----
(***************************************************************************)
(* Model of src/app.py: a Streamlit page that keeps a task table in a      *)
(* JSON file of a GitHub repository.  Streamlit executes the whole script  *)
(* from its first line on every interaction of a browser session (session  *)
(* start, an edit in the grid, a click on the save button); only           *)
(* st.session_state survives from one execution to the next.  One script   *)
(* execution is single-threaded and makes at most one blocking request,    *)
(* so it is one atomic action here.                                        *)
(***************************************************************************)
EXTENDS Naturals, Sequences, FiniteSets

\* ------------------------------------------------------------- bounds
MaxRows == 1          \* longest table built in the editor
MaxSha == 2           \* revisions the remote file goes through
MaxRequests == 3      \* the request counters saturate here

Sessions == {"s1", "s2"}
RowValues == {"Design"}

\* ------------------------------------------------------------- values
SecretNames == {"GITHUB_TOKEN", "GITHUB_USER", "GITHUB_REPO", "GITHUB_FILE_PATH"}

Table == UNION {[1..n -> RowValues] : n \in 0..MaxRows}

get_empty_df == << >>

\* Python's None for st.session_state.github_sha; markers are 1..MaxSha.
None == 0

\* The text of the remote file: a JSON array of records, the empty string,
\* text that is not JSON, or bytes that are not UTF-8.
JsonText(rows) == [kind |-> "json", rows |-> rows]
EmptyText == [kind |-> "empty", rows |-> << >>]
NotJsonText == [kind |-> "notjson", rows |-> << >>]
NotUtf8Bytes == [kind |-> "notutf8", rows |-> << >>]
FileBytes == {JsonText(t) : t \in Table} \cup {EmptyText, NotJsonText, NotUtf8Bytes}

b64encode(bytes) == [b64 |-> bytes]
b64decode(c) == c.b64

\* df.to_json(orient='records')
to_json(df) == JsonText(df)

NoFile == [exists |-> FALSE, sha |-> None, bytes |-> EmptyText]

VARIABLES
    secrets,          \* the names present in st.secrets (per deployment)
    remote,           \* the file in the repository: exists, sha, bytes
    session_state,    \* st.session_state of each session
    API_URL,          \* module global at the end of the session's last run
    HEADERS,          \* module global at the end of the session's last run
    edited_df,        \* what st.data_editor returns in the session
    trigger,          \* what started the session's last run
    messages,         \* st.warning / st.error / st.success of the last run
    requests_made,    \* the HTTP requests of the last run
    n_get,            \* GET requests of the session so far
    n_put             \* PUT requests of the session so far

vars == <<secrets, remote, session_state, API_URL, HEADERS, edited_df, trigger,
          messages, requests_made, n_get, n_put>>

\* st.session_state before the first run: no key is set.
EmptyState == [keys |-> {}, github_configured |-> FALSE, data |-> get_empty_df,
               github_sha |-> None]

Has(st, key) == key \in st.keys

Bump(n, k) == IF n + k > MaxRequests THEN MaxRequests ELSE n + k

\* ----------------------------------------------- the remote content API
\* Outcomes of one HTTP exchange the client cannot control: the exchange
\* works, the connection fails (requests raises ConnectionError), or the
\* service answers with a server error.
Faults == {"none", "conn", "http500"}

\* An exchange as the session's log keeps it: the request, the status of the
\* response (0 stands for "no response: requests raised a connection error")
\* and, for a GET, the content that came back.
GetRequest(resp) == [method |-> "GET", has_sha |-> FALSE, sha |-> None,
                     content |-> resp.content, status |-> resp.status]
PutRequest(payload, status) == [method |-> "PUT", has_sha |-> payload.has_sha, sha |-> payload.sha,
                                content |-> payload.content, status |-> status]

\* GET /contents/{path}.
RemoteGet(r, fault) ==
    IF fault = "conn" THEN [status |-> 0, sha |-> None, content |-> b64encode(EmptyText)]
    ELSE IF fault = "http500" THEN [status |-> 500, sha |-> None, content |-> b64encode(EmptyText)]
    ELSE IF ~r.exists THEN [status |-> 404, sha |-> None, content |-> b64encode(EmptyText)]
    ELSE [status |-> 200, sha |-> r.sha, content |-> b64encode(r.bytes)]

\* PUT /contents/{path}: create when the file is missing and no sha is sent,
\* update when the sha sent is the file's current one, 409 on a stale sha,
\* 422 when a sha is missing for an existing file or sent for a missing one.
RemotePut(r, payload, fault) ==
    IF fault = "conn" THEN [status |-> 0, sha |-> None, remote |-> r]
    ELSE IF fault = "http500" THEN [status |-> 500, sha |-> None, remote |-> r]
    ELSE IF ~r.exists /\ ~payload.has_sha
        THEN [status |-> 201, sha |-> r.sha + 1,
              remote |-> [exists |-> TRUE, sha |-> r.sha + 1, bytes |-> b64decode(payload.content)]]
    ELSE IF ~r.exists THEN [status |-> 422, sha |-> None, remote |-> r]
    ELSE IF ~payload.has_sha THEN [status |-> 422, sha |-> None, remote |-> r]
    ELSE IF payload.sha # r.sha THEN [status |-> 409, sha |-> None, remote |-> r]
    ELSE [status |-> 200, sha |-> r.sha + 1,
          remote |-> [exists |-> TRUE, sha |-> r.sha + 1, bytes |-> b64decode(payload.content)]]

\* A write needs a fresh marker: once MaxSha is used up a PUT can only fail.
PutFaults(r) == IF r.sha < MaxSha THEN Faults ELSE Faults \ {"none"}

\* --------------------------------------------- configuration, lines 14-45
\* A variant that looks up the token alone.
only_token_present(sec) == "GITHUB_TOKEN" \in sec

\* Lines 30-33: the four st.secrets[...] lookups raise no KeyError.
all_secrets_present(sec) == SecretNames \subseteq sec

\* Lines 15-16 and 27-45.  The globals are reset to None (FALSE) by every
\* run; they are set only in the run that finds no 'github_configured' key.
configure(st, sec) ==
    IF ~Has(st, "github_configured")
    THEN IF all_secrets_present(sec)
         THEN [st |-> [st EXCEPT !.keys = @ \cup {"github_configured"}, !.github_configured = TRUE],
               API_URL |-> TRUE, HEADERS |-> TRUE]
         ELSE [st |-> [st EXCEPT !.keys = @ \cup {"github_configured"}, !.github_configured = FALSE],
               API_URL |-> FALSE, HEADERS |-> FALSE]
    ELSE [st |-> st, API_URL |-> FALSE, HEADERS |-> FALSE]

\* ------------------------------------- carregar_dados_github, lines 51-81
LoadResult(df, st, msgs, reqs) == [df |-> df, st |-> st, msgs |-> msgs, reqs |-> reqs]

\* Lines 72-75: HTTPError with status 404.
load_not_found(st, reqs) ==
    LoadResult(get_empty_df,
               [st EXCEPT !.keys = @ \cup {"github_sha"}, !.github_sha = None],
               <<"warning:load:not_found">>, reqs)

\* Lines 76-78: any other HTTPError.
load_http_error(st, reqs) ==
    LoadResult(get_empty_df, st, <<"error:load:http">>, reqs)

\* A variant whose handler asks the service once more before giving up.
load_unexpected_error_retry(st, reqs) ==
    [df |-> get_empty_df, st |-> st, msgs |-> <<"error:load:unexpected">>,
     reqs |-> reqs \o reqs]

\* Lines 79-81: any other exception.
load_unexpected_error(st, reqs) ==
    LoadResult(get_empty_df, st, <<"error:load:unexpected">>, reqs)

\* Lines 61-69: the body of a 200 response.
load_decode(st, reqs, resp) ==
    LET content == b64decode(resp.content)
        st63 == [st EXCEPT !.keys = @ \cup {"github_sha"}, !.github_sha = resp.sha]
    IN IF content.kind = "notutf8" THEN load_unexpected_error(st, reqs)   \* line 62 raises
       ELSE IF content.kind = "empty" THEN LoadResult(get_empty_df, st63, << >>, reqs)
       ELSE IF content.kind = "notjson" THEN load_unexpected_error(st63, reqs) \* line 68 raises
       ELSE LoadResult(content.rows, st63, << >>, reqs)

carregar_dados_github(api_url, headers, st, r, fault) ==
    IF ~api_url \/ ~headers
    THEN LoadResult(get_empty_df, st, <<"error:load:no_config">>, << >>)
    ELSE LET req == RemoteGet(r, fault)
             reqs == <<GetRequest(req)>>
         IN IF req.status = 0 THEN load_unexpected_error(st, reqs)
            ELSE IF req.status = 404 THEN load_not_found(st, reqs)
            ELSE IF req.status >= 400 THEN load_http_error(st, reqs)
            ELSE load_decode(st, reqs, req)

\* --------------------------------------- salvar_dados_github, lines 83-111
SaveResult(ok, st, msgs, reqs, r) == [ok |-> ok, st |-> st, msgs |-> msgs, reqs |-> reqs, remote |-> r]

\* Lines 90-100: the body of the write request.
save_payload(df, st) ==
    LET with_sha == Has(st, "github_sha") /\ st.github_sha # None
    IN [content |-> b64encode(to_json(df)), has_sha |-> with_sha,
        sha |-> IF with_sha THEN st.github_sha ELSE None]

\* Lines 109-111: the handler of every exception.
save_failed(st, reqs, r, status) ==
    SaveResult(FALSE, st,
               << IF status = 409 THEN "error:save:409_conflict"
                  ELSE IF status = 422 THEN "error:save:422_validation"
                  ELSE IF status = 0 THEN "error:save:connection"
                  ELSE "error:save:http" >>,
               reqs, r)

salvar_dados_github(api_url, headers, st, df, r, fault) ==
    IF ~api_url \/ ~headers
    THEN SaveResult(FALSE, st, <<"error:save:no_config">>, << >>, r)
    ELSE LET payload == save_payload(df, st)
             req == RemotePut(r, payload, fault)
             reqs == <<PutRequest(payload, req.status)>>
         IN IF req.status = 0 \/ req.status >= 400
            THEN save_failed(st, reqs, r, req.status)
            ELSE SaveResult(TRUE,
                            [st EXCEPT !.keys = @ \cup {"github_sha"}, !.github_sha = req.sha],
                            <<"success:save">>, reqs, req.remote)

\* ------------------------------------------- the page logic, lines 113-175
\* Lines 118-127: the notice of the demonstration mode.
demo_warning(st) == IF ~st.github_configured THEN <<"warning:demo_mode">> ELSE << >>

\* Lines 129-134: the table is loaded once, when no 'data' key is set.
initial_load(api_url, headers, st, r, fault) ==
    IF ~Has(st, "data")
    THEN IF st.github_configured
         THEN LET l == carregar_dados_github(api_url, headers, st, r, fault)
              IN [l EXCEPT !.st = [l.st EXCEPT !.keys = @ \cup {"data"}, !.data = l.df]]
         ELSE LoadResult(get_empty_df,
                         [st EXCEPT !.keys = @ \cup {"data"}, !.data = get_empty_df],
                         << >>, << >>)
    ELSE LoadResult(st.data, st, << >>, << >>)

\* Lines 141-168: the grid returns the table it was given until the user
\* has touched it, and the user's version afterwards.
data_editor(data, touched, widget) == IF touched THEN widget ELSE data

\* Line 172: disabled=not st.session_state.github_configured.
save_button_disabled(st) == ~st.github_configured

\* A variant that saves without storing the edited table in the session.
save_button_keeps_data(clicked, api_url, headers, st, edited, r, fault) ==
    IF clicked
    THEN salvar_dados_github(api_url, headers, st, edited, r, fault)
    ELSE SaveResult(FALSE, st, << >>, << >>, r)

\* Lines 172-175: the handler of the save button.
save_button(clicked, api_url, headers, st, edited, r, fault) ==
    IF clicked
    THEN salvar_dados_github(api_url, headers,
                             [st EXCEPT !.keys = @ \cup {"data"}, !.data = edited],
                             edited, r, fault)
    ELSE SaveResult(FALSE, st, << >>, << >>, r)

\* One execution of the script, first line to last.
script(st, sec, r, clicked, touched, widget, get_fault, put_fault) ==
    LET cfg == configure(st, sec)
        ld == initial_load(cfg.API_URL, cfg.HEADERS, cfg.st, r, get_fault)
        edited == data_editor(ld.st.data, touched, widget)
        sv == save_button(clicked, cfg.API_URL, cfg.HEADERS, ld.st, edited, r, put_fault)
    IN [st |-> sv.st, API_URL |-> cfg.API_URL, HEADERS |-> cfg.HEADERS,
        edited_df |-> edited,
        messages |-> demo_warning(cfg.st) \o ld.msgs \o sv.msgs,
        requests_made |-> ld.reqs \o sv.reqs,
        remote |-> sv.remote]

CountOf(reqs, method) == Cardinality({i \in DOMAIN reqs : reqs[i].method = method})

Run(s, why, clicked, touched, widget, get_fault, put_fault) ==
    LET out == script(session_state[s], secrets, remote, clicked, touched, widget,
                      get_fault, put_fault)
    IN /\ session_state' = [session_state EXCEPT ![s] = out.st]
       /\ API_URL' = [API_URL EXCEPT ![s] = out.API_URL]
       /\ HEADERS' = [HEADERS EXCEPT ![s] = out.HEADERS]
       /\ edited_df' = [edited_df EXCEPT ![s] = out.edited_df]
       /\ trigger' = [trigger EXCEPT ![s] = why]
       /\ messages' = [messages EXCEPT ![s] = out.messages]
       /\ requests_made' = [requests_made EXCEPT ![s] = out.requests_made]
       /\ n_get' = [n_get EXCEPT ![s] = Bump(@, CountOf(out.requests_made, "GET"))]
       /\ n_put' = [n_put EXCEPT ![s] = Bump(@, CountOf(out.requests_made, "PUT"))]
       /\ remote' = out.remote
       /\ UNCHANGED secrets

Started(s) == session_state[s].keys # {}

\* The browser opens the page: the first execution of the script.
FirstRun(s) ==
    /\ ~Started(s)
    /\ \E gf \in Faults :
          Run(s, "start", FALSE, FALSE, edited_df[s], gf, "conn")

\* The user changes the grid: the script runs again, the button not clicked.
EditRerun(s) ==
    /\ Started(s)
    /\ \E t \in Table \ {edited_df[s]} :
          Run(s, "edit", FALSE, TRUE, t, "conn", "conn")

\* The user clicks the enabled save button: the script runs again.
SaveClick(s) ==
    /\ Started(s)
    /\ ~save_button_disabled(session_state[s])
    /\ \E pf \in PutFaults(remote) :
          Run(s, "save", TRUE, TRUE, edited_df[s], "conn", pf)

\* Another client of the repository commits a new version of the file.
ExternalWrite ==
    /\ remote.sha < MaxSha
    /\ \E b \in FileBytes :
          remote' = [exists |-> TRUE, sha |-> remote.sha + 1, bytes |-> b]
    /\ UNCHANGED <<secrets, session_state, API_URL, HEADERS, edited_df, trigger,
                   messages, requests_made, n_get, n_put>>

Init ==
    /\ secrets \in SUBSET SecretNames
    /\ remote \in {NoFile} \cup {[exists |-> TRUE, sha |-> 1, bytes |-> b] : b \in FileBytes}
    /\ session_state = [s \in Sessions |-> EmptyState]
    /\ API_URL = [s \in Sessions |-> FALSE]
    /\ HEADERS = [s \in Sessions |-> FALSE]
    /\ edited_df = [s \in Sessions |-> get_empty_df]
    /\ trigger = [s \in Sessions |-> "none"]
    /\ messages = [s \in Sessions |-> << >>]
    /\ requests_made = [s \in Sessions |-> << >>]
    /\ n_get = [s \in Sessions |-> 0]
    /\ n_put = [s \in Sessions |-> 0]

Next ==
    \/ \E s \in Sessions : FirstRun(s)
    \/ \E s \in Sessions : EditRerun(s)
    \/ \E s \in Sessions : SaveClick(s)
    \/ ExternalWrite

Spec == Init /\ [][Next]_vars

\* ------------------------------------------------------------ the claims
\* The deployment has the four credentials.
Configured == secrets = SecretNames

\* The session holds a revision marker (a sha that is not None).
HoldsMarker(st) == Has(st, "github_sha") /\ st.github_sha # None

\* The table and the marker of a session as the next run finds them.
TableOf(st) == [held |-> Has(st, "data"), rows |-> st.data]
MarkerOf(st) == [held |-> Has(st, "github_sha"), sha |-> st.github_sha]

Shows(msgs, m) == \E i \in DOMAIN msgs : msgs[i] = m
LoadErrors == {"error:load:http", "error:load:unexpected", "error:load:no_config"}
SaveErrors == {"error:save:409_conflict", "error:save:422_validation",
               "error:save:connection", "error:save:http", "error:save:no_config"}
ShowsAny(msgs, set) == \E i \in DOMAIN msgs : msgs[i] \in set

\* The held marker is not the file's current one: somebody else wrote since
\* this session last read or wrote the file.
Stale(s) ==
    /\ HoldsMarker(session_state[s])
    /\ remote.exists
    /\ session_state[s].github_sha # remote.sha

\* The one write request a save of table df with session state st is to send.
IsWriteOf(reqs, df, st) ==
    /\ Len(reqs) = 1
    /\ reqs[1].method = "PUT"
    /\ reqs[1].content = b64encode(to_json(df))
    /\ reqs[1].has_sha = HoldsMarker(st)
    /\ HoldsMarker(st) => reqs[1].sha = st.github_sha

\* The response the session's load got, as its request log shows it.
LoadGot(s, status) ==
    /\ FirstRun(s)
    /\ Len(requests_made'[s]) = 1
    /\ requests_made'[s][1].method = "GET"
    /\ requests_made'[s][1].status = status

\* The session's last run was its load, and this is what the load got.
JustLoaded(s, status, bytes) ==
    /\ trigger[s] = "start"
    /\ Len(requests_made[s]) = 1
    /\ requests_made[s][1].status = status
    /\ requests_made[s][1].content = b64encode(bytes)

\* The save of this step was accepted by the remote service, or it never
\* got an answer to judge (connection failure, server error).
SaveAccepted(s) ==
    /\ Shows(messages'[s], "success:save")
    /\ remote'.exists /\ remote'.bytes = to_json(edited_df[s])
    /\ session_state'[s].github_sha = remote'.sha
SaveUnanswered(s) ==
    \/ Shows(messages'[s], "error:save:connection")
    \/ Shows(messages'[s], "error:save:http")

\* The session is the last writer or reader of the file: nobody wrote since.
InSync(s) ==
    /\ HoldsMarker(session_state[s])
    /\ remote.exists
    /\ session_state[s].github_sha = remote.sha

\* C1: a save by a session whose held marker is stale fails with a conflict
\* (unless the request got no answer at all); the remote file stays what the
\* other writer left, the session's table is the one the user had, and the
\* held marker is unchanged.
C1_StaleSaveIsConflict ==
    [][\A s \in Sessions :
          (SaveClick(s) /\ Stale(s)) =>
              /\ Shows(messages'[s], "error:save:409_conflict") \/ SaveUnanswered(s)
              /\ remote' = remote
              /\ session_state'[s].data = edited_df[s]
              /\ edited_df'[s] = edited_df[s]
              /\ MarkerOf(session_state'[s]) = MarkerOf(session_state[s])]_vars

\* C2: with the four credentials present, every click on the save button
\* issues one write request that carries the working copy.
C2_EverySaveWrites ==
    [][\A s \in Sessions :
          (Configured /\ SaveClick(s)) =>
              IsWriteOf(requests_made'[s], edited_df[s], session_state[s])]_vars

\* C3: every write request carries the held marker, the held marker changes
\* only to the marker of a response this session received, a successful save
\* replaces it by the marker of the write response, and so with no other
\* writer every save of the session is accepted by the compare-and-swap.
C3_SavesCarryFreshMarker ==
    [][\A s \in Sessions :
          /\ SaveClick(s) =>
                \A i \in DOMAIN requests_made'[s] :
                    (requests_made'[s][i].method = "PUT" /\ HoldsMarker(session_state[s])) =>
                        /\ requests_made'[s][i].has_sha
                        /\ requests_made'[s][i].sha = session_state[s].github_sha
          /\ (MarkerOf(session_state'[s]) # MarkerOf(session_state[s])
                /\ HoldsMarker(session_state'[s])) =>
                    \/ FirstRun(s) /\ session_state'[s].github_sha = remote.sha
                    \/ SaveClick(s) /\ session_state'[s].github_sha = remote'.sha
          /\ (SaveClick(s) /\ InSync(s)) => (SaveAccepted(s) \/ SaveUnanswered(s))]_vars

\* C4: a not-found load leaves an empty table and no marker and shows no
\* error; the save that follows it sends a create request without a marker,
\* and once it succeeded the session holds the marker of the write response.
C4_NotFoundThenCreate ==
    [][\A s \in Sessions :
          /\ LoadGot(s, 404) =>
                /\ TableOf(session_state'[s]) = [held |-> TRUE, rows |-> get_empty_df]
                /\ ~HoldsMarker(session_state'[s])
                /\ ~ShowsAny(messages'[s], LoadErrors)
          /\ (SaveClick(s) /\ JustLoaded(s, 404, EmptyText)) =>
                /\ IsWriteOf(requests_made'[s], edited_df[s], session_state[s])
                /\ ~requests_made'[s][1].has_sha
                /\ requests_made'[s][1].status = 201 =>
                      /\ HoldsMarker(session_state'[s])
                      /\ session_state'[s].github_sha = remote'.sha]_vars

\* C5: a load of a file whose content is the empty string leaves an empty
\* table and the file's marker, unlike the not-found case, and the save that
\* follows it is an update that carries this marker.
C5_EmptyContentThenUpdate ==
    [][\A s \in Sessions :
          /\ (LoadGot(s, 200) /\ remote.bytes = EmptyText) =>
                /\ TableOf(session_state'[s]) = [held |-> TRUE, rows |-> get_empty_df]
                /\ MarkerOf(session_state'[s]) = [held |-> TRUE, sha |-> remote.sha]
                /\ HoldsMarker(session_state'[s])
          /\ (SaveClick(s) /\ JustLoaded(s, 200, EmptyText)) =>
                /\ IsWriteOf(requests_made'[s], edited_df[s], session_state[s])
                /\ requests_made'[s][1].has_sha
                /\ requests_made'[s][1].sha = session_state[s].github_sha]_vars

\* C6: a load that fails for a reason other than not-found shows an error,
\* the run completes, and the session's table and marker are what they were
\* before the load.
C6_FailedLoadKeepsState ==
    [][\A s \in Sessions :
          (LoadGot(s, 0) \/ LoadGot(s, 500)) =>
              /\ ShowsAny(messages'[s], LoadErrors)
              /\ Started(s)'
              /\ TableOf(session_state'[s]) = TableOf(session_state[s])
              /\ MarkerOf(session_state'[s]) = MarkerOf(session_state[s])]_vars

C8_DegradedMode ==
    ~Configured =>
        \A s \in Sessions :
            /\ ~API_URL[s] /\ ~HEADERS[s]
            /\ trigger[s] # "save"
            /\ requests_made[s] = << >>
            /\ n_get[s] = 0 /\ n_put[s] = 0
            /\ Started(s) =>
                  /\ Has(session_state[s], "github_configured")
                  /\ ~session_state[s].github_configured
                  /\ save_button_disabled(session_state[s])
                  /\ TableOf(session_state[s]) = [held |-> TRUE, rows |-> get_empty_df]
                  /\ ~HoldsMarker(session_state[s])
                  /\ messages[s] = <<"warning:demo_mode">>

\* Only the file path is missing, and a session has been edited in.
C8_Reached ==
    /\ secrets = SecretNames \ {"GITHUB_FILE_PATH"}
    /\ \E s \in Sessions :
          /\ trigger[s] = "edit"
          /\ edited_df[s] # get_empty_df
          /\ save_button_disabled(session_state[s])

\* C9: nothing is retried: a session sends at most one read request, a run
\* sends at most one request, a save click at most one write request, and a
\* request is sent only by the first run (the load) or by a save click.
C9_NoAutomaticRetry ==
    /\ [](\A s \in Sessions : n_get[s] <= 1 /\ Len(requests_made[s]) <= 1)
    /\ [][\A s \in Sessions :
            /\ (n_get'[s] # n_get[s]) => (FirstRun(s) /\ n_get'[s] = n_get[s] + 1)
            /\ (n_put'[s] # n_put[s]) => (SaveClick(s) /\ n_put'[s] = n_put[s] + 1)
            /\ (requests_made'[s] # << >> /\ requests_made'[s] # requests_made[s])
                  => (FirstRun(s) \/ SaveClick(s))
            /\ EditRerun(s) => requests_made'[s] = << >>]_vars

\* A load failed, a save failed after it, and one request in all was sent.
C9_Reached ==
    \E s \in Sessions :
        /\ trigger[s] = "save"
        /\ ShowsAny(messages[s], SaveErrors)
        /\ ~Has(session_state[s], "github_sha")
        /\ n_get[s] = 1
        /\ n_put[s] = 0

\* C10: after a load that ended through an error path the session holds no
\* marker; a marker is held only with the rows decoded from the file.
C10_NoMarkerAfterFailedLoad ==
    \A s \in Sessions :
        (trigger[s] = "start" /\ ShowsAny(messages[s], LoadErrors)) =>
            ~HoldsMarker(session_state[s])

====
